---- MODULE Spec2Model ----
(***************************************************************************)
(* Word-level model of custom_memory_allocator.c.                          *)
(*                                                                         *)
(* The arena is an array of machine words; the pool header and every node  *)
(* header live in that array, and each handler is translated statement by  *)
(* statement into loads and stores on it.  size_t and pointer arithmetic   *)
(* wrap modulo 2^WordBits (the real width, 32 or 64, scaled down).  The    *)
(* build's data model (ILP32 or LP64) is chosen in Init: it decides        *)
(* sizeof(struct memory_block) and sizeof(struct memory_node).             *)
(***************************************************************************)
EXTENDS Integers, Sequences, FiniteSets, TLC

\* ---------------------------------------------------------------- bounds
\* modelled width of size_t and of pointers, in bits
WordBits == 12
\* allocations pool_alloc may make in one run
MaxAllocs == 3
\* mapped heap bytes that follow the largest pool
HeapSlack == 80
\* content of the heap words next to the pool that the program never wrote
HEAP_FILL == 0

\* ------------------------------------------------------- program constants
MIN_ALIGNMENT == 8
NULL == 0
\* the address malloc returns for the pool
Base == 1024
\* one byte of the memset pattern
DEBUG_BYTE == 204
\* the pool size and the request sizes of test_memory_allocator
TEST_POOL_SIZE == 150
TEST_STR_SIZE == 12
TEST_BUFFER_SIZE == 20
TEST_INT_SIZE == 4
TEST_TOO_LARGE == 1000

Modulus == 2 ^ WordBits

\* sizeof(size_t) == sizeof(void *) of the two data models
WordSizes == {4, 8}

VARIABLES
    ws,          \* sizeof(size_t) of the build
    status,      \* "none", "active", "destroyed", "aborted", "crashed", "hung"
    capacity,    \* the size passed to malloc for the current pool
    mem,         \* word index -> word value, from Base upwards
    live,        \* data pointers returned by pool_alloc and not yet freed
    freed,       \* data pointers passed to pool_free and not returned since
    call,        \* the last call: [op, arg, ret, site]
    script,      \* progress of the calls through test_memory_allocator
    allocs       \* number of allocations pool_alloc has made in the pool

vars == <<ws, status, capacity, mem, live, freed, call, script, allocs>>

\* ------------------------------------------------------------ arithmetic
Add(a, b) == (a + b) % Modulus
Sub(a, b) == ((a - b) + 2 * Modulus) % Modulus

\* the word holding the memset pattern
DebugWord == (DEBUG_BYTE + 256 * DEBUG_BYTE + 65536 * DEBUG_BYTE) % Modulus

\* ----------------------------------------------------------- struct layout
sizeof_memory_block == 5 * ws
sizeof_memory_node == 5 * ws
MIN_BLOCK_SIZE == sizeof_memory_node + MIN_ALIGNMENT

\* struct memory_block field offsets
off_first == 0
off_upper_limit == ws
off_total_size == 2 * ws
off_used_memory == 3 * ws
off_num_allocations == 4 * ws

\* struct memory_node field offsets
off_size == 0
off_is_used == ws
off_prev == 2 * ws
off_next == 3 * ws
off_pool == 4 * ws

\* ----------------------------------------------------------------- memory
\* bytes of heap the process can touch without a fault: the pool and the
\* heap bytes that follow it
MappedBytes == TEST_POOL_SIZE + HeapSlack
MemWords == MappedBytes \div ws

Mapped(a) == /\ a >= Base
             /\ a < Base + MemWords * ws
             /\ (a - Base) % ws = 0
Idx(a) == (a - Base) \div ws

\* inside the block malloc returned
InPool(a) == a >= Base /\ a + ws <= Base + capacity

\* a machine state: memory, a fault (access to unmapped memory), and an
\* access outside the malloc'd block
Machine(m) == [mem |-> m, fault |-> FALSE, oob |-> FALSE]

Touch(s, a) == [s EXCEPT !.fault = @ \/ ~Mapped(a),
                         !.oob = @ \/ ~InPool(a)]
Load(s, a) == IF Mapped(a) THEN s.mem[Idx(a)] ELSE 0
Store(s, a, v) ==
    IF s.fault \/ ~Mapped(a)
    THEN [s EXCEPT !.fault = TRUE]
    ELSE [s EXCEPT !.mem[Idx(a)] = v, !.oob = @ \/ ~InPool(a)]
\* bool is one byte: a store leaves the padding bytes of the word alone
StoreBool(s, a, b) ==
    Store(s, a, (Load(s, a) - (Load(s, a) % 256)) + (IF b THEN 1 ELSE 0))
LoadBool(s, a) == (Load(s, a) % 256) # 0

\* ------------------------------------------------------ create_memory_pool
\* memory right after malloc and the initialisation of the header
create_memory_pool_mem(size) ==
    [i \in 0 .. (MemWords - 1) |->
        IF i = off_first \div ws THEN NULL
        ELSE IF i = off_upper_limit \div ws THEN Add(Base, size)
        ELSE IF i = off_total_size \div ws THEN size
        ELSE IF i = off_used_memory \div ws THEN 0
        ELSE IF i = off_num_allocations \div ws THEN 0
        ELSE IF i * ws < size THEN DebugWord
        ELSE HEAP_FILL]

\* the size test of line 44 off by one
create_memory_pool_strict(size) ==
    IF size <= MIN_BLOCK_SIZE THEN NULL ELSE Base

create_memory_pool(size) ==
    IF size < MIN_BLOCK_SIZE THEN NULL ELSE Base

\* -------------------------------------------------------------- align_size
\* rounding down instead of up
align_size_down(size) == size - (size % MIN_ALIGNMENT)
align_size(size) ==
    LET t == Add(size, MIN_ALIGNMENT - 1) IN t - (t % MIN_ALIGNMENT)

\* -------------------------------------------------------------- pool_alloc
\* what pool_alloc returns at its three failure exits: a zero aligned size,
\* a request above capacity - used, and a search that found no gap
ret_zero_size == NULL
ret_out_of_budget == NULL
\* a search that falls off the list and hands out the start of the data area
ret_no_fit_unchecked == Add(Base, sizeof_memory_block)
ret_no_fit == NULL

Result(s, ret, site) ==
    [mem |-> s.mem, fault |-> s.fault, oob |-> s.oob, ret |-> ret, site |-> site]

\* statement sequencing: v is evaluated once, then F is applied to its value
Bind(v, F(_)) == CHOOSE r \in {F(bound) : bound \in {v}} : TRUE

\* the first three stores into a new node, lines 93-95 / 110-112 / 138-140
init_node(s, node, aligned_size, prev) ==
    Bind(Bind(
        Store(s, Add(node, off_size), aligned_size),
        LAMBDA x : StoreBool(x, Add(node, off_is_used), TRUE)),
        LAMBDA x : Store(x, Add(node, off_prev), prev))

\* pool->used_memory += ...; pool->num_allocations++
account_alloc(s, pool, aligned_size) ==
    Bind(Store(s, Add(pool, off_used_memory),
               Add(Load(s, Add(pool, off_used_memory)),
                   Add(aligned_size, sizeof_memory_node))),
         LAMBDA x : Store(x, Add(pool, off_num_allocations),
                          Add(Load(x, Add(pool, off_num_allocations)), 1)))

\* lines 92-103: the list is empty
alloc_empty(s, pool, aligned_size, node) ==
    Bind(Bind(Bind(Bind(Bind(
        init_node(s, node, aligned_size, NULL),
        LAMBDA x : Store(x, Add(node, off_next), NULL)),
        LAMBDA x : Store(x, Add(node, off_pool), pool)),
        LAMBDA x : Store(x, Add(pool, off_first), node)),
        LAMBDA x : account_alloc(x, pool, aligned_size)),
        LAMBDA x : Result(x, Add(node, sizeof_memory_node), "empty"))

\* lines 109-121: the gap before the first node
alloc_front(s, pool, aligned_size, node) ==
    Bind(Bind(Bind(Bind(Bind(Bind(
        init_node(s, node, aligned_size, NULL),
        LAMBDA x : Store(x, Add(node, off_next), Load(x, Add(pool, off_first)))),
        LAMBDA x : Store(x, Add(node, off_pool), pool)),
        LAMBDA x : Store(x, Add(Load(x, Add(pool, off_first)), off_prev), node)),
        LAMBDA x : Store(x, Add(pool, off_first), node)),
        LAMBDA x : account_alloc(x, pool, aligned_size)),
        LAMBDA x : Result(x, Add(node, sizeof_memory_node), "front"))

\* lines 137-152: the gap after current
alloc_after(s, pool, aligned_size, current, node) ==
    Bind(Bind(Bind(Bind(Bind(Bind(
        init_node(s, node, aligned_size, current),
        LAMBDA x : Store(x, Add(node, off_next), Load(x, Add(current, off_next)))),
        LAMBDA x : Store(x, Add(node, off_pool), pool)),
        LAMBDA x : IF Load(x, Add(current, off_next)) # NULL
                   THEN Store(x, Add(Load(x, Add(current, off_next)), off_prev), node)
                   ELSE x),
        LAMBDA x : Store(x, Add(current, off_next), node)),
        LAMBDA x : account_alloc(x, pool, aligned_size)),
        LAMBDA x : Result(x, Add(node, sizeof_memory_node), "walk"))

\* the loop with a strict comparison at line 136: an exact fit is passed over
RECURSIVE alloc_walk_strict(_, _, _, _, _)
alloc_walk_strict(s, pool, aligned_size, current, visited) ==
    IF current = NULL THEN Result(s, NULL, "nofit")
    ELSE IF current \in visited THEN Result(s, NULL, "hang")
    ELSE
    LET current_end == Add(current, Add(sizeof_memory_node, Load(s, Add(current, off_size))))
        next == Load(s, Add(current, off_next))
        gap_size == IF next # NULL
                    THEN Sub(next, current_end)
                    ELSE Sub(Load(s, Add(pool, off_upper_limit)), current_end)
    IN  IF ~Mapped(Add(current, off_size)) \/ ~Mapped(Add(current, off_next))
        THEN Result([s EXCEPT !.fault = TRUE], NULL, "fault")
        ELSE IF gap_size > Add(aligned_size, sizeof_memory_node)
        THEN Bind(Touch(Touch(s, Add(current, off_size)), Add(current, off_next)),
                  LAMBDA x : Bind(current_end,
                  LAMBDA node : alloc_after(x, pool, aligned_size, current, node)))
        ELSE Bind(Touch(Touch(s, Add(current, off_size)), Add(current, off_next)),
                  LAMBDA x : Bind(next,
                  LAMBDA n : alloc_walk_strict(x, pool, aligned_size, n,
                                               visited \cup {current})))

\* the loop of lines 125-156; the loop writes nothing before it returns, so
\* a walk that comes back to a node it has visited never ends
RECURSIVE alloc_walk(_, _, _, _, _)
alloc_walk(s, pool, aligned_size, current, visited) ==
    IF current = NULL THEN Result(s, ret_no_fit, "nofit")
    ELSE IF current \in visited THEN Result(s, NULL, "hang")
    ELSE
    LET current_end == Add(current, Add(sizeof_memory_node, Load(s, Add(current, off_size))))
        next == Load(s, Add(current, off_next))
        gap_size == IF next # NULL
                    THEN Sub(next, current_end)
                    ELSE Sub(Load(s, Add(pool, off_upper_limit)), current_end)
    IN  IF ~Mapped(Add(current, off_size)) \/ ~Mapped(Add(current, off_next))
        THEN Result([s EXCEPT !.fault = TRUE], NULL, "fault")
        ELSE IF gap_size >= Add(aligned_size, sizeof_memory_node)
        THEN Bind(Touch(Touch(s, Add(current, off_size)), Add(current, off_next)),
                  LAMBDA x : Bind(current_end,
                  LAMBDA node : alloc_after(x, pool, aligned_size, current, node)))
        ELSE Bind(Touch(Touch(s, Add(current, off_size)), Add(current, off_next)),
                  LAMBDA x : Bind(next,
                  LAMBDA n : alloc_walk(x, pool, aligned_size, n,
                                        visited \cup {current})))

pool_alloc(m, pool, size) ==
    LET s == Machine(m)
        aligned_size == align_size(size)
        total_size == Load(s, Add(pool, off_total_size))
        used_memory == Load(s, Add(pool, off_used_memory))
        pool_start == Add(pool, sizeof_memory_block)
        first == Load(s, Add(pool, off_first))
        initial_gap == Sub(first, pool_start)
    IN  IF aligned_size = 0 THEN Result(s, ret_zero_size, "zero")
        ELSE IF Add(aligned_size, sizeof_memory_node) > Sub(total_size, used_memory)
        THEN Result(s, ret_out_of_budget, "budget")
        ELSE IF first = NULL
        THEN alloc_empty(s, pool, aligned_size, pool_start)
        ELSE IF initial_gap >= Add(aligned_size, sizeof_memory_node)
        THEN alloc_front(s, pool, aligned_size, pool_start)
        ELSE alloc_walk(s, pool, aligned_size, first, {})

\* --------------------------------------------------------------- pool_free
\* line 169: node->pool->used_memory -= node->size + sizeof(struct memory_node)
free_used(s, node) ==
    Bind(Touch(Touch(s, Add(node, off_pool)), Add(node, off_size)),
         LAMBDA x : Store(x, Add(Load(x, Add(node, off_pool)), off_used_memory),
                          Sub(Load(x, Add(Load(x, Add(node, off_pool)), off_used_memory)),
                              Add(Load(x, Add(node, off_size)), sizeof_memory_node))))

\* line 170: node->pool->num_allocations--
free_count(s, node) ==
    Store(s, Add(Load(s, Add(node, off_pool)), off_num_allocations),
          Sub(Load(s, Add(Load(s, Add(node, off_pool)), off_num_allocations)), 1))

\* line 173: node->is_used = false
free_flag(s, node) == StoreBool(s, Add(node, off_is_used), FALSE)

\* lines 176-180: unlink from the predecessor, or from the pool
free_unlink_prev(s, node) ==
    Bind(Touch(Touch(s, Add(node, off_prev)), Add(node, off_next)),
         LAMBDA x : IF Load(x, Add(node, off_prev)) # NULL
                    THEN Store(x, Add(Load(x, Add(node, off_prev)), off_next),
                               Load(x, Add(node, off_next)))
                    ELSE Store(x, Add(Load(x, Add(node, off_pool)), off_first),
                               Load(x, Add(node, off_next))))

\* lines 182-184: unlink from the successor
free_unlink_next(s, node) ==
    IF Load(s, Add(node, off_next)) # NULL
    THEN Store(s, Add(Load(s, Add(node, off_next)), off_prev),
               Load(s, Add(node, off_prev)))
    ELSE s

pool_free(m, ptr) ==
    LET node == Sub(ptr, sizeof_memory_node)
        t == Touch(Machine(m), Add(node, off_is_used))
    IN  IF ptr = NULL THEN Result(Machine(m), NULL, "null")
        ELSE IF t.fault THEN Result(t, NULL, "fault")
        ELSE IF ~LoadBool(t, Add(node, off_is_used)) THEN Result(t, NULL, "assert")
        ELSE Bind(Bind(Bind(Bind(Bind(
                free_used(t, node),
                LAMBDA x : free_count(x, node)),
                LAMBDA x : free_flag(x, node)),
                LAMBDA x : free_unlink_prev(x, node)),
                LAMBDA x : free_unlink_next(x, node)),
                LAMBDA x : Result(x, NULL, "freed"))

\* ---------------------------------------------------------- get_pool_stats
get_pool_stats(m, pool) ==
    LET s == Machine(m)
    IN  <<Load(s, Add(pool, off_total_size)),
          Load(s, Add(pool, off_used_memory)),
          Load(s, Add(pool, off_num_allocations))>>

\* ---------------------------------------------------------- visualize_pool
\* the lines printed under "Memory Layout:", one pair <<tag, bytes>> each;
\* site tells how the walk ended: it returned, it read unmapped memory, or
\* it came back to a node it had printed and so prints for ever
RECURSIVE visualize_walk(_, _, _, _, _, _)
visualize_walk(s, pool, node, current, out, visited) ==
    IF node = NULL
    THEN [ret |-> IF current < Load(s, Add(pool, off_upper_limit))
                  THEN Append(out, <<"GAP", Sub(Load(s, Add(pool, off_upper_limit)),
                                                current)>>)
                  ELSE out,
          site |-> "none"]
    ELSE IF ~Mapped(node) \/ ~Mapped(Add(node, off_pool))
    THEN [ret |-> out, site |-> "fault"]
    ELSE IF node \in visited
    THEN [ret |-> out, site |-> "hang"]
    ELSE Bind((IF node > current THEN Append(out, <<"GAP", Sub(node, current)>>)
                                 ELSE out)
              \o << <<IF LoadBool(s, Add(node, off_is_used)) THEN "USED" ELSE "FREE",
                      Add(Load(s, Add(node, off_size)), sizeof_memory_node)>> >>,
              LAMBDA o : Bind(Load(s, Add(node, off_next)),
              LAMBDA n : Bind(Add(node, Add(sizeof_memory_node,
                                            Load(s, Add(node, off_size)))),
              LAMBDA c : visualize_walk(s, pool, n, c, o, visited \cup {node}))))

visualize_pool(m, pool) ==
    visualize_walk(Machine(m), pool, Load(Machine(m), Add(pool, off_first)),
                   Add(pool, sizeof_memory_block), << >>, {})

\* ------------------------------------------------------------ destroy_pool
\* the warning printed whatever the count is
destroy_pool_warns_always(m, pool) == TRUE
\* TRUE when the warning of lines 235-238 is printed
destroy_pool_warns(m, pool) ==
    Load(Machine(m), Add(pool, off_num_allocations)) > 0

\* ------------------------------------------------------------- the caller
\* capacities passed to create_memory_pool
Capacities == {16, 48, TEST_POOL_SIZE}
\* sizes passed to pool_alloc: small requests, one above every capacity, and
\* two at the top of the size_t range
Sizes ==
    {0, TEST_INT_SIZE, TEST_STR_SIZE, TEST_BUFFER_SIZE, TEST_TOO_LARGE,
     Modulus - 40, Modulus - 8}

NoCall == [op |-> "none", arg |-> 0, ret |-> NULL, site |-> "none"]

\* test_memory_allocator, Tests 1-4 and 7, as far as the calls made so far
\* follow it: step counts the calls that matched, rets the pointers returned
OffScript == [step |-> -1, rets |-> << >>]
ScriptNext(sc, c) ==
    IF sc.step = 0 /\ c.op = "create_memory_pool" /\ c.arg = TEST_POOL_SIZE
       /\ c.ret # NULL
    THEN [step |-> 1, rets |-> << >>]
    ELSE IF sc.step = 1 /\ c.op = "pool_alloc" /\ c.arg = TEST_STR_SIZE
    THEN [step |-> 2, rets |-> <<c.ret>>]
    ELSE IF sc.step = 2 /\ c.op = "pool_alloc" /\ c.arg = TEST_BUFFER_SIZE
    THEN [step |-> 3, rets |-> Append(sc.rets, c.ret)]
    ELSE IF sc.step = 3 /\ c.op = "pool_free" /\ c.arg = sc.rets[1]
    THEN [step |-> 4, rets |-> sc.rets]
    ELSE IF sc.step = 4 /\ c.op = "pool_alloc" /\ c.arg = TEST_INT_SIZE
    THEN [step |-> 5, rets |-> Append(sc.rets, c.ret)]
    ELSE IF sc.step = 5 /\ c.op = "get_pool_stats"
    THEN [step |-> 6, rets |-> sc.rets]
    ELSE OffScript

Init ==
    /\ ws \in WordSizes
    /\ status = "none"
    /\ capacity = 0
    /\ mem = [i \in 0 .. (MemWords - 1) |-> HEAP_FILL]
    /\ live = {}
    /\ freed = {}
    /\ call = NoCall
    /\ script = [step |-> 0, rets |-> << >>]
    /\ allocs = 0

\* struct memory_block *pool = create_memory_pool(size)
Create(size) ==
    /\ status = "none"
    /\ call.op = "none"
    /\ \/ /\ call' = [op |-> "create_memory_pool", arg |-> size,
                      ret |-> create_memory_pool(size), site |-> "none"]
          /\ script' = ScriptNext(script, call')
          /\ IF create_memory_pool(size) = NULL
             THEN UNCHANGED <<status, capacity, mem>>
             ELSE /\ status' = "active"
                  /\ capacity' = size
                  /\ mem' = create_memory_pool_mem(size)
       \* lines 48-51: malloc has no memory to give
       \/ /\ create_memory_pool(size) # NULL
          /\ call' = [op |-> "create_memory_pool", arg |-> size,
                      ret |-> NULL, site |-> "nomem"]
          /\ script' = OffScript
          /\ UNCHANGED <<status, capacity, mem>>
    /\ UNCHANGED <<ws, live, freed, allocs>>

\* the process dies in the call: nothing it did is observable afterwards
Die(how, op, arg) ==
    /\ status' = how
    /\ call' = [op |-> op, arg |-> arg, ret |-> NULL, site |-> how]
    /\ script' = OffScript
    /\ UNCHANGED <<ws, capacity, mem, live, freed, allocs>>

\* the effect of p = pool_alloc(pool, size) on the process; an access outside
\* the malloc'd block either goes unnoticed or kills the process
AllocCall(size) ==
    \E r \in {pool_alloc(mem, Base, size)} :
        IF r.site = "hang" THEN Die("hung", "pool_alloc", size)
        ELSE IF r.fault THEN Die("crashed", "pool_alloc", size)
        ELSE \/ /\ r.oob
                /\ Die("crashed", "pool_alloc", size)
             \/ /\ mem' = r.mem
                /\ call' = [op |-> "pool_alloc", arg |-> size,
                            ret |-> r.ret, site |-> r.site]
                /\ script' = ScriptNext(script, call')
                /\ live' = IF r.ret = NULL THEN live ELSE live \cup {r.ret}
                /\ freed' = freed \ {r.ret}
                /\ allocs' = IF r.ret = NULL THEN allocs ELSE allocs + 1
                /\ UNCHANGED <<ws, status, capacity>>

\* p = pool_alloc(pool, size)
Alloc(size) ==
    /\ status = "active"
    /\ allocs < MaxAllocs
    /\ AllocCall(size)

\* the effect of pool_free(ptr) on the process
FreeCall(ptr) ==
    \E r \in {pool_free(mem, ptr)} :
        IF r.site = "assert" THEN Die("aborted", "pool_free", ptr)
        ELSE IF r.fault THEN Die("crashed", "pool_free", ptr)
        ELSE \/ /\ r.oob
                /\ Die("crashed", "pool_free", ptr)
             \/ /\ mem' = r.mem
                /\ call' = [op |-> "pool_free", arg |-> ptr,
                            ret |-> NULL, site |-> r.site]
                /\ script' = ScriptNext(script, call')
                /\ live' = live \ {ptr}
                /\ freed' = IF ptr = NULL THEN freed ELSE freed \cup {ptr}
                /\ UNCHANGED <<ws, status, capacity, allocs>>

\* pool_free(ptr) of a pointer the caller holds, or of NULL
Free(ptr) ==
    /\ status = "active"
    /\ ptr \in live \cup {NULL}
    /\ FreeCall(ptr)

\* get_pool_stats(pool, &total, &used, &allocations)
Stats ==
    /\ status = "active"
    /\ call' = [op |-> "get_pool_stats", arg |-> Base,
                ret |-> get_pool_stats(mem, Base), site |-> "none"]
    /\ script' = ScriptNext(script, call')
    /\ UNCHANGED <<ws, status, capacity, mem, live, freed, allocs>>

\* visualize_pool(pool)
Visualize ==
    /\ status = "active"
    /\ \E r \in {visualize_pool(mem, Base)} :
          IF r.site = "hang" THEN Die("hung", "visualize_pool", Base)
          ELSE IF r.site = "fault" THEN Die("crashed", "visualize_pool", Base)
          ELSE /\ call' = [op |-> "visualize_pool", arg |-> Base,
                           ret |-> r.ret, site |-> "none"]
               /\ script' = ScriptNext(script, call')
               /\ UNCHANGED <<ws, status, capacity, mem, live, freed, allocs>>

\* destroy_pool(pool)
Destroy ==
    /\ status = "active"
    /\ status' = "destroyed"
    /\ call' = [op |-> "destroy_pool", arg |-> Base,
                ret |-> destroy_pool_warns(mem, Base), site |-> "none"]
    /\ script' = OffScript
    /\ UNCHANGED <<ws, capacity, mem, live, freed, allocs>>

Next ==
    \/ \E size \in Capacities : Create(size)
    \/ \E size \in Sizes : Alloc(size)
    \/ \E ptr \in live \cup {NULL} : Free(ptr)
    \/ Stats
    \/ Visualize
    \/ Destroy

Spec == Init /\ [][Next]_vars

\* ------------------------------------------------------ a misusing caller
\* allocations pool_alloc may make in one run of the misusing caller
MaxAllocsMisuse == 4
MisuseSizes == {TEST_INT_SIZE, TEST_STR_SIZE}

\* addresses one alignment unit above a data pointer or above the start of
\* the data area: pointers into the pool that pool_alloc did not return
ForeignBases == live \cup {Base + sizeof_memory_block}

CreateTest == Create(TEST_POOL_SIZE)

AllocMisuse(size) ==
    /\ status = "active"
    /\ allocs < MaxAllocsMisuse
    /\ AllocCall(size)

\* pool_free(ptr) of a pointer freed before and not returned again since
FreeStale(ptr) ==
    /\ status = "active"
    /\ ptr \in freed \ live
    /\ FreeCall(ptr)

\* pool_free(ptr) of a pointer pool_alloc never returned
FreeForeign(ptr) ==
    /\ status = "active"
    /\ ptr \notin live \cup freed
    /\ FreeCall(ptr)

NextMisuse ==
    \/ CreateTest
    \/ \E size \in MisuseSizes : AllocMisuse(size)
    \/ \E ptr \in live : Free(ptr)
    \/ \E ptr \in freed : FreeStale(ptr)
    \/ \E p \in ForeignBases : FreeForeign(Add(p, MIN_ALIGNMENT))

SpecMisuse == Init /\ [][NextMisuse]_vars

\* --------------------------------------------- a caller that reuses spans
\* allocations pool_alloc may make in one run of the reusing caller
MaxAllocsReuse == 6
\* a pool that holds five of the smallest records on either data model
REUSE_POOL_SIZE == 180
\* a request whose footprint on ILP32 is that of three of the smallest records,
REUSE_SPAN_SIZE == 64
\* and a request whose footprint wraps to 0 on LP64
ReuseSizes == {TEST_INT_SIZE, REUSE_SPAN_SIZE, Modulus - 40}

CreateReuse == Create(REUSE_POOL_SIZE)

AllocReuse(size) ==
    /\ status = "active"
    /\ allocs < MaxAllocsReuse
    /\ AllocCall(size)

NextReuse ==
    \/ CreateReuse
    \/ \E size \in ReuseSizes : AllocReuse(size)
    \/ \E ptr \in live : Free(ptr)

SpecReuse == Init /\ [][NextReuse]_vars

\* --------------------------------------- a caller that keeps a dead handle
\* destroy_pool leaves the caller's pointer dangling, and assert(pool) only
\* refuses NULL: a later call dereferences freed memory, which either kills
\* the process or runs the handler on what the block still holds

\* pool_alloc(pool, size) after destroy_pool(pool)
AllocDestroyed(size) ==
    /\ status = "destroyed"
    /\ allocs < MaxAllocs
    /\ \/ Die("crashed", "pool_alloc", size)
       \/ AllocCall(size)

\* pool_free(ptr), ptr from the pool, after destroy_pool(pool)
FreeDestroyed(ptr) ==
    /\ status = "destroyed"
    /\ ptr \in live
    /\ \/ Die("crashed", "pool_free", ptr)
       \/ FreeCall(ptr)

\* get_pool_stats(pool, ...) after destroy_pool(pool)
StatsDestroyed ==
    /\ status = "destroyed"
    /\ \/ Die("crashed", "get_pool_stats", Base)
       \/ /\ call' = [op |-> "get_pool_stats", arg |-> Base,
                      ret |-> get_pool_stats(mem, Base), site |-> "none"]
          /\ UNCHANGED <<ws, status, capacity, mem, live, freed, script, allocs>>

\* visualize_pool(pool) after destroy_pool(pool)
VisualizeDestroyed ==
    /\ status = "destroyed"
    /\ \/ Die("crashed", "visualize_pool", Base)
       \/ \E r \in {visualize_pool(mem, Base)} :
             IF r.site = "hang" THEN Die("hung", "visualize_pool", Base)
             ELSE IF r.site = "fault" THEN Die("crashed", "visualize_pool", Base)
             ELSE /\ call' = [op |-> "visualize_pool", arg |-> Base,
                              ret |-> r.ret, site |-> "none"]
                  /\ UNCHANGED <<ws, status, capacity, mem, live, freed, script,
                                 allocs>>

\* destroy_pool(pool) a second time: free(pool) of a freed block is caught by
\* the C library, or is not
DestroyDestroyed ==
    /\ status = "destroyed"
    /\ call.op # "destroy_pool"
    /\ \/ Die("aborted", "destroy_pool", Base)
       \/ /\ call' = [op |-> "destroy_pool", arg |-> Base,
                      ret |-> destroy_pool_warns(mem, Base), site |-> "none"]
          /\ UNCHANGED <<ws, status, capacity, mem, live, freed, script, allocs>>

NextLifecycle ==
    \/ CreateTest
    \/ \E size \in MisuseSizes : Alloc(size)
    \/ \E ptr \in live : Free(ptr)
    \/ Destroy
    \/ \E size \in MisuseSizes : AllocDestroyed(size)
    \/ \E ptr \in live : FreeDestroyed(ptr)
    \/ StatsDestroyed
    \/ VisualizeDestroyed
    \/ DestroyDestroyed

SpecLifecycle == Init /\ [][NextLifecycle]_vars

\* ------------------------------------------ create_memory_pool on its own
\* every size the mapped heap can hold
AllCapacities == 0 .. MappedBytes

NextCreate == \E size \in AllCapacities : Create(size)

SpecCreate == Init /\ [][NextCreate]_vars

\* ------------------------------------------------- align_size on its own
\* every value of size_t
AllSizes == 0 .. (Modulus - 1)

\* aligned_size = align_size(size), line 77, for any size
Align(size) ==
    /\ call.op = "none"
    /\ call' = [op |-> "align_size", arg |-> size,
                ret |-> align_size(size), site |-> "none"]
    /\ UNCHANGED <<ws, status, capacity, mem, live, freed, script, allocs>>

NextAlign == \E size \in AllSizes : Align(size)

SpecAlign == Init /\ [][NextAlign]_vars

\* ------------------------------------------------- reading the pool's state
Word(m, a) == IF Mapped(a) THEN m[Idx(a)] ELSE 0

\* the nodes reachable from pool->first through next, in list order
RECURSIVE list_walk(_, _, _)
list_walk(m, node, acc) ==
    IF \/ node = NULL
       \/ ~Mapped(node)
       \/ ~Mapped(Add(node, off_pool))
       \/ \E i \in 1 .. Len(acc) : acc[i] = node
    THEN acc
    ELSE list_walk(m, Word(m, Add(node, off_next)), Append(acc, node))

Records(m) == list_walk(m, Word(m, Add(Base, off_first)), << >>)
node_size(m, node) == Word(m, Add(node, off_size))
\* bytes a record occupies: header and data
Footprint(m, node) == node_size(m, node) + sizeof_memory_node
\* first byte after a record
RecordEnd(m, node) == node + Footprint(m, node)

pool_start == Base + sizeof_memory_block
upper_limit(m) == Word(m, Add(Base, off_upper_limit))
total_size(m) == Word(m, Add(Base, off_total_size))
used_memory(m) == Word(m, Add(Base, off_used_memory))
num_allocations(m) == Word(m, Add(Base, off_num_allocations))

RECURSIVE SumFootprints(_, _)
SumFootprints(m, nodes) ==
    IF nodes = << >> THEN 0
    ELSE Footprint(m, Head(nodes)) + SumFootprints(m, Tail(nodes))

\* ------------------------------------------------------------------ claims

\* C1: every record reachable from pool->first lies inside the data area:
\* it starts at or after base + sizeof(pool header) and ends at or before
\* base + capacity.
C1_RecordsInsideDataArea ==
    status = "active" =>
        \A i \in 1 .. Len(Records(mem)) :
            LET r == Records(mem)[i]
            IN  /\ r >= pool_start
                /\ RecordEnd(mem, r) <= Base + capacity

\* C2: used_memory is the sum of the footprints of the records reachable from
\* pool->first and num_allocations is their number.  The sum is taken as the
\* program takes it, in size_t, which is what visualize_pool prints.
C2_CountersMatchList ==
    status = "active" =>
        /\ used_memory(mem) = SumFootprints(mem, Records(mem)) % Modulus
        /\ num_allocations(mem) = Len(Records(mem))

\* C3: the records reachable from pool->first are in strictly ascending
\* address order and do not overlap: each ends at or before its successor.
C3_AscendingDisjoint ==
    status = "active" =>
        \A i \in 1 .. (Len(Records(mem)) - 1) :
            LET r == Records(mem)[i]
                n == Records(mem)[i + 1]
            IN  r < n /\ RecordEnd(mem, r) <= n

\* the gaps of the data area in address order, as <<start, size>>: the whole
\* data area when the list is empty, else the gap before the first record,
\* the gaps between consecutive records and the gap after the last record
Gaps(m) ==
    LET R == Records(m)
    IN  IF R = << >>
        THEN << <<pool_start, (Base + capacity) - pool_start>> >>
        ELSE << <<pool_start, R[1] - pool_start>> >>
             \o [i \in 1 .. (Len(R) - 1) |->
                    <<RecordEnd(m, R[i]), R[i + 1] - RecordEnd(m, R[i])>>]
             \o << <<RecordEnd(m, R[Len(R)]),
                     (Base + capacity) - RecordEnd(m, R[Len(R)])>> >>

\* bytes a request needs: aligned size plus header, not wrapped
Need(size) == align_size(size) + sizeof_memory_node
Fits(m, size) == \E i \in 1 .. Len(Gaps(m)) : Gaps(m)[i][2] >= Need(size)
FirstFit(m, size) ==
    Gaps(m)[CHOOSE i \in 1 .. Len(Gaps(m)) :
                /\ Gaps(m)[i][2] >= Need(size)
                /\ \A j \in 1 .. (i - 1) : Gaps(m)[j][2] < Need(size)][1]

\* the step is a call of pool_alloc that returned
AllocReturned == status = "active" /\ status' = "active" /\ call'.op = "pool_alloc"
AllocSucceeded == AllocReturned /\ call'.ret # NULL

\* C4: a successful pool_alloc places the record at the start of the
\* lowest-address gap that is at least aligned size + header size.
C4_FirstFit ==
    [][AllocSucceeded =>
          /\ Fits(mem, call'.arg)
          /\ Sub(call'.ret, sizeof_memory_node) = FirstFit(mem, call'.arg)]_vars

\* C5: a request within capacity - used that is larger than every gap fails
\* and places no record; a request that passes the budget check and fits
\* some gap succeeds.
C5_NoFitFails ==
    [][AllocReturned =>
          /\ (/\ Need(call'.arg) <= capacity - used_memory(mem)
              /\ ~Fits(mem, call'.arg))
             => (call'.ret = NULL /\ Records(mem') = Records(mem))
          /\ (/\ call'.site \notin {"zero", "budget"}
              /\ Fits(mem, call'.arg))
             => call'.ret # NULL]_vars

\* the step is a call of pool_free with a pointer that is not the data
\* pointer of a record in the list
InvalidFree ==
    /\ status = "active"
    /\ call'.op = "pool_free"
    /\ call' # call
    /\ call'.arg # NULL
    /\ \A i \in 1 .. Len(Records(mem)) :
           call'.arg # Add(Records(mem)[i], sizeof_memory_node)

\* C6: pool_free of a pointer that is not the data pointer of a record in
\* the list removes no record and leaves used_memory, num_allocations and
\* the list as they were.
C6_InvalidFreeRejected ==
    [][InvalidFree =>
          /\ used_memory(mem') = used_memory(mem)
          /\ num_allocations(mem') = num_allocations(mem)
          /\ Records(mem') = Records(mem)]_vars

\* the requested size rounded up to a multiple of 8, not wrapped
RoundUp8(size) == ((size + (MIN_ALIGNMENT - 1)) \div MIN_ALIGNMENT) * MIN_ALIGNMENT

\* C7: a request whose rounded size plus header exceeds capacity - used
\* fails and creates no record; no request above the capacity succeeds.
C7_OverBudgetFails ==
    [][AllocReturned =>
          /\ RoundUp8(call'.arg) + sizeof_memory_node > capacity - used_memory(mem)
             => (call'.ret = NULL /\ Records(mem') = Records(mem))
          /\ call'.arg > capacity => call'.ret = NULL]_vars

\* C8: after create(150), A = allocate(12), B = allocate(20), free(A),
\* C = allocate(4) and stats, the three pointers are non-null, C's record
\* lies in the span A's record had, and stats reported capacity 150,
\* used = footprint(B) + footprint(C) and count 2.
C8_TestScenario ==
    script.step = 6 =>
        LET A == script.rets[1]
            B == script.rets[2]
            C == script.rets[3]
        IN  /\ A # NULL /\ B # NULL /\ C # NULL
            /\ C >= A
            /\ C + align_size(TEST_INT_SIZE) <= A + align_size(TEST_STR_SIZE)
            /\ call.ret = <<TEST_POOL_SIZE,
                            Need(TEST_BUFFER_SIZE) + Need(TEST_INT_SIZE), 2>>

\* some gap of the data area can hold a record header
RoomForHeader(m) ==
    /\ sizeof_memory_node <= capacity - used_memory(m)
    /\ \E i \in 1 .. Len(Gaps(m)) : Gaps(m)[i][2] >= sizeof_memory_node

\* C9: pool_alloc(pool, 0) on a pool with room for a record header returns a
\* non-null pointer the caller can free, and the allocation is counted.
C9_ZeroSizeSucceeds ==
    [][(AllocReturned /\ call'.arg = 0 /\ RoomForHeader(mem)) =>
          /\ call'.ret # NULL
          /\ call'.ret \in live'
          /\ num_allocations(mem') = num_allocations(mem) + 1]_vars

\* the last call was a pool_alloc that left by the given failure exit
FailedAt(site) ==
    status = "active" /\ call.op = "pool_alloc" /\ call.site = site

JustFreed == status = "active" /\ call.op = "pool_free" /\ call.site = "freed"

\* the index of the gap that holds address a, or 0
GapAt(m, a) ==
    IF \E i \in 1 .. Len(Gaps(m)) :
           Gaps(m)[i][1] <= a /\ a < Gaps(m)[i][1] + Gaps(m)[i][2]
    THEN CHOOSE i \in 1 .. Len(Gaps(m)) :
           Gaps(m)[i][1] <= a /\ a < Gaps(m)[i][1] + Gaps(m)[i][2]
    ELSE 0

\* the step is a pool_alloc, right after pool_free(R), whose footprint is
\* exactly the span R's removal left between its neighbours (or the ends of
\* the data area), with no sufficient gap below it
ExactRefill ==
    /\ JustFreed
    /\ AllocReturned
    /\ GapAt(mem, Sub(call.arg, sizeof_memory_node)) # 0
    /\ LET g == GapAt(mem, Sub(call.arg, sizeof_memory_node))
       IN  /\ Need(call'.arg) = Gaps(mem)[g][2]
           /\ \A j \in 1 .. (g - 1) : Gaps(mem)[j][2] < Need(call'.arg)

\* C11: after pool_free(R), a pool_alloc whose footprint is exactly the span
\* between R's neighbours (end(P) or the start of the data area, start(N) or
\* upper_limit), with no sufficient gap at a lower address, succeeds and is
\* placed at the start of that span.
C11_ExactRefill ==
    [][ExactRefill =>
          /\ call'.ret # NULL
          /\ Sub(call'.ret, sizeof_memory_node)
                = Gaps(mem)[GapAt(mem, Sub(call.arg, sizeof_memory_node))][1]]_vars

\* the last call filled, exactly, a span between two records that is wider on
\* both sides than the freed record R it held: the new record starts where
\* its predecessor ends, ends where its successor starts, and R's stale
\* header, whose links still name those two neighbours, lies strictly inside
\* its data
C11_Witness ==
    /\ status = "active" /\ call.op = "pool_alloc" /\ call.site = "walk"
    /\ LET n == Sub(call.ret, sizeof_memory_node)
           P == Word(mem, Add(n, off_prev))
           N == Word(mem, Add(n, off_next))
       IN  /\ P # NULL /\ RecordEnd(mem, P) = n
           /\ N # NULL /\ RecordEnd(mem, n) = N
           /\ \E r \in freed \ live :
                 /\ call.ret <= Sub(r, sizeof_memory_node)
                 /\ RecordEnd(mem, Sub(r, sizeof_memory_node)) < N
                 /\ Word(mem, Add(Sub(r, sizeof_memory_node), off_prev)) = P
                 /\ Word(mem, Add(Sub(r, sizeof_memory_node), off_next)) = N
                 /\ ~LoadBool(Machine(mem), Add(Sub(r, sizeof_memory_node), off_is_used))

\* C12: every successful pool_alloc returns a data pointer whose offset from
\* the base of the pool is a multiple of 8 and stores a record size that is
\* a multiple of 8.
C12_DataPointerAligned ==
    [][AllocSucceeded =>
          /\ Sub(call'.ret, Base) % MIN_ALIGNMENT = 0
          /\ node_size(mem', Sub(call'.ret, sizeof_memory_node)) % MIN_ALIGNMENT = 0]_vars

\* the last call was align_size
Aligned == call.op = "align_size"

\* C13 as claimed: for every size_t value s, align_size(s) >= s and
\* align_size(s) < s + 8.
C13_AlignAll ==
    Aligned => (call.ret >= call.arg /\ call.ret < call.arg + MIN_ALIGNMENT)

\* C13 as amended: for every s <= SIZE_MAX - 7, align_size(s) is the least
\* multiple of 8 that is >= s; for the seven larger values the sum wraps and
\* align_size(s) is 0.
C13_AlignBelowWrap ==
    Aligned =>
        IF call.arg <= Modulus - MIN_ALIGNMENT
        THEN /\ call.ret % MIN_ALIGNMENT = 0
             /\ call.ret >= call.arg
             /\ call.ret < call.arg + MIN_ALIGNMENT
        ELSE call.ret = 0

\* a size that is not a multiple of 8 was rounded up
C13_Witness ==
    /\ Aligned
    /\ call.arg % MIN_ALIGNMENT # 0
    /\ call.arg <= Modulus - MIN_ALIGNMENT
    /\ call.ret > call.arg

\* C14: once destroy_pool has been called, every later pool_alloc, pool_free,
\* get_pool_stats, visualize_pool or destroy_pool on the pool is refused as a
\* fatal error: the process stops in the call and the pool's memory is
\* neither read into a result nor changed.
C14_DestroyedIsTerminal ==
    [][status = "destroyed" =>
          /\ status' \in {"aborted", "crashed"}
          /\ mem' = mem]_vars

\* C15: destroy_pool on an active pool completes and leaves the pool
\* destroyed whatever records are outstanding; it prints the warning exactly
\* when num_allocations > 0 and frees or unlinks no record.
C15_DestroyCompletes ==
    [][(status = "active" /\ call'.op = "destroy_pool") =>
          /\ status' = "destroyed"
          /\ call'.ret = (num_allocations(mem) > 0)
          /\ mem' = mem
          /\ live' = live]_vars

\* a pool was destroyed with records outstanding, with the warning
C15_Witness ==
    /\ status = "destroyed"
    /\ call.op = "destroy_pool"
    /\ call.ret = TRUE
    /\ live # {}
    /\ Records(mem) # << >>

\* the step is a call of create_memory_pool
Created == call.op = "none" /\ call'.op = "create_memory_pool"

RECURSIVE Without(_, _)
Without(seq, e) ==
    IF seq = << >> THEN << >>
    ELSE IF Head(seq) = e THEN Without(Tail(seq), e)
    ELSE <<Head(seq)>> \o Without(Tail(seq), e)

\* the step is a pool_free, which returned, of the data pointer of a record
\* in the list that the caller holds
FreeOfLive ==
    /\ status = "active" /\ status' = "active"
    /\ call'.op = "pool_free"
    /\ call'.arg \in live
    /\ \E i \in 1 .. Len(Records(mem)) :
           Records(mem)[i] = Sub(call'.arg, sizeof_memory_node)

\* C17: pool_free of the data pointer of a live record takes size + header
\* off used_memory and 1 off num_allocations and removes that record alone:
\* the other records keep their addresses, sizes and order, and total_size
\* and upper_limit are unchanged; pool_free(NULL) changes nothing.
C17_FreeFrame ==
    [][/\ FreeOfLive =>
            LET node == Sub(call'.arg, sizeof_memory_node)
            IN  /\ used_memory(mem') = Sub(used_memory(mem), Footprint(mem, node) % Modulus)
                /\ num_allocations(mem') = Sub(num_allocations(mem), 1)
                /\ Records(mem') = Without(Records(mem), node)
                /\ \A i \in 1 .. Len(Records(mem')) :
                       node_size(mem', Records(mem')[i]) = node_size(mem, Records(mem')[i])
                /\ total_size(mem') = total_size(mem)
                /\ upper_limit(mem') = upper_limit(mem)
       /\ (status = "active" /\ call'.op = "pool_free" /\ call'.arg = NULL)
            => (mem' = mem /\ status' = "active")]_vars

\* the step is a pool_alloc that found the aligned size 0, the request above
\* total_size - used_memory, or no gap large enough in its search
AllocFailing ==
    /\ status = "active"
    /\ call'.op = "pool_alloc"
    /\ call'.site \in {"zero", "budget", "nofit", "hung"}

\* C18: a pool_alloc that fails returns NULL without stopping the process and
\* leaves the list, used_memory, num_allocations, the capacity and the
\* pool's lifecycle state as they were.
C18_FailureLeavesPool ==
    [][AllocFailing =>
          /\ status' = "active"
          /\ call'.ret = NULL
          /\ Records(mem') = Records(mem)
          /\ used_memory(mem') = used_memory(mem)
          /\ num_allocations(mem') = num_allocations(mem)
          /\ total_size(mem') = total_size(mem)
          /\ capacity' = capacity]_vars

\* C19: between calls every record reachable from pool->first has is_used
\* set, and visualize_pool prints no FREE entry.
C19_ListedRecordsInUse ==
    /\ status = "active" =>
          \A i \in 1 .. Len(Records(mem)) :
              LoadBool(Machine(mem), Add(Records(mem)[i], off_is_used))
    /\ (status = "active" /\ call.op = "visualize_pool") =>
          \A i \in 1 .. Len(call.ret) : call.ret[i][1] # "FREE"

\* the step is pool_free(p) right after the successful p = pool_alloc(...)
FreeOfLastAlloc ==
    /\ status = "active" /\ status' = "active"
    /\ call.op = "pool_alloc" /\ call.ret # NULL
    /\ call'.op = "pool_free" /\ call'.arg = call.ret

\* C20: a successful p = pool_alloc(pool, s) adds one record and its
\* footprint and count to the pool's abstract state and nothing else, and
\* pool_free(p) right after it takes exactly those away again, so that the
\* record addresses and sizes, used_memory and num_allocations are as before
\* the pair; with no pointer left to free the list is empty and used_memory
\* and num_allocations are 0.
C20_RoundTrip ==
    [][/\ AllocSucceeded =>
            LET node == Sub(call'.ret, sizeof_memory_node)
            IN  /\ Without(Records(mem'), node) = Records(mem)
                /\ Len(Records(mem')) = Len(Records(mem)) + 1
                /\ \A i \in 1 .. Len(Records(mem)) :
                       node_size(mem', Records(mem)[i]) = node_size(mem, Records(mem)[i])
                /\ used_memory(mem') = Add(used_memory(mem), Footprint(mem', node) % Modulus)
                /\ num_allocations(mem') = Add(num_allocations(mem), 1)
       /\ FreeOfLastAlloc =>
            LET node == Sub(call'.arg, sizeof_memory_node)
            IN  /\ Records(mem') = Without(Records(mem), node)
                /\ Len(Records(mem')) = Len(Records(mem)) - 1
                /\ \A i \in 1 .. Len(Records(mem')) :
                       node_size(mem', Records(mem')[i]) = node_size(mem, Records(mem')[i])
                /\ used_memory(mem') = Sub(used_memory(mem), Footprint(mem, node) % Modulus)
                /\ num_allocations(mem') = Sub(num_allocations(mem), 1)
       /\ (status = "active" /\ live = {}) =>
            /\ Records(mem) = << >>
            /\ used_memory(mem) = 0
            /\ num_allocations(mem) = 0]_vars

====
